---- MODULE Spec2Model ----
(***************************************************************************)
(* Model of the deterministic core of timeopti:                            *)
(*   - calculate_free_slots   (backend/services/free_time_service.py)      *)
(*   - TaskMatcher            (backend/services/matching_service.py)       *)
(*   - analyze_calendar_gaps  (backend/app/services/ai_service.py)         *)
(* and of get_or_create_user (backend/app/api/v1/endpoints).               *)
(*                                                                         *)
(* Times of calculate_free_slots are datetimes; they are modelled as the   *)
(* number of seconds since 00:00:00 of the target day (negative: an        *)
(* earlier day, >= 86400: a later day).  HH:MM strings produced by         *)
(* strftime are modelled as the minute of the day (0..1439).               *)
(***************************************************************************)
EXTENDS Integers, Sequences, FiniteSets, TLC

\* ------------------------------------------------------------------ bounds
\* Number of entries of the events list handed to calculate_free_slots.
MaxEvents == 2
\* Lengths of the tasks and gaps lists handed to match_tasks_to_gaps.
MaxTasks == 2
MaxGaps == 2

\* ------------------------------------------------------- time conversions
SecondsPerDay == 86400

Max(a, b) == IF a >= b THEN a ELSE b
Min(a, b) == IF a <= b THEN a ELSE b

\* A time string of the interface: "HH:MM", an ISO date-time (the day is
\* given relative to the target day), an unparseable string, or a missing /
\* empty value.
HHMM(h, m) == [fmt |-> "HH:MM", d |-> 0, h |-> h, m |-> m, s |-> 0]
ISO(d, h, m, s) == [fmt |-> "ISO", d |-> d, h |-> h, m |-> m, s |-> s]
Malformed == [fmt |-> "bad", d |-> 0, h |-> 0, m |-> 0, s |-> 0]
Missing == [fmt |-> "none", d |-> 0, h |-> 0, m |-> 0, s |-> 0]

\* datetime.combine(base_date, parse_time(t_str)): seconds-of-day of HH:MM.
parse_time(t) == t.h * 3600 + t.m * 60

\* datetime.fromisoformat(...).replace(tzinfo=None)
fromisoformat(t) == t.d * SecondsPerDay + t.h * 3600 + t.m * 60 + t.s

\* Whether parsing the string raises (strptime / fromisoformat ValueError).
Parses(t) == t.fmt \in {"HH:MM", "ISO"}

\* Lines 98-108: 'T' in the string selects the ISO parser.
ParseEventTime(t) == IF t.fmt = "ISO" THEN fromisoformat(t) ELSE parse_time(t)

\* dt.strftime("%H:%M"): hour and minute of the datetime, seconds dropped;
\* encoded as minute of the day.
strftime(dt) == (dt % SecondsPerDay) \div 60

\* int(x / 60) of a timedelta's total_seconds(): truncation towards zero.
DurationMinutes(from, to) ==
    IF to >= from THEN (to - from) \div 60 ELSE -((from - to) \div 60)

\* --------------------------------------------------------------- inputs
DayStarts == {HHMM(0, 0), HHMM(9, 0)}
DayEnds == {HHMM(8, 0), HHMM(22, 0), HHMM(23, 59)}
SleepStarts == {HHMM(7, 0), HHMM(23, 0)}
SleepEnds == {HHMM(7, 0), HHMM(10, 0)}
MinSlots == {15, 60}
\* datetime.now(): whether it falls on the target day, and its time.
Nows == {[today |-> FALSE, t |-> 9 * 3600 + 10 * 60 + 30],
         [today |-> TRUE, t |-> 9 * 3600 + 10 * 60 + 30],
         [today |-> TRUE, t |-> 23 * 3600 + 59 * 60 + 30]}
NoNow == [today |-> FALSE, t |-> 0]
EventTimes == {ISO(-1, 23, 0, 0), HHMM(9, 0), HHMM(9, 50), HHMM(10, 0),
               ISO(0, 10, 0, 30), ISO(1, 1, 0, 0), Malformed, Missing}
Events == [start_time : EventTimes, end_time : EventTimes]
\* The entries of the event lists of the calls whose whole list is fixed when
\* the call is made.
ListedEvents ==
    {[start_time |-> HHMM(9, 0), end_time |-> HHMM(10, 0)],
     [start_time |-> HHMM(12, 0), end_time |-> HHMM(13, 0)],
     [start_time |-> ISO(0, 9, 0, 0), end_time |-> ISO(0, 10, 0, 30)],
     [start_time |-> Malformed, end_time |-> HHMM(13, 0)],
     [start_time |-> HHMM(9, 50), end_time |-> Missing]}

VARIABLES
    \* calculate_free_slots: parameters (events is the list of the call when
    \* the call fixes it; it is <<>> when the entries are drawn as the loop
    \* reads them)
    events, day_start, day_end, sleep_start, sleep_end, min_slot_minutes,
    start_from_now, now,
    \* calculate_free_slots: locals
    pcF, start_dt, end_dt, busy_intervals, n_events, merged, free_slots,
    \* match_tasks_to_gaps: arguments (gaps is the caller's list of references
    \* to Gap objects, heap holds the fields of every Gap object, input_gaps
    \* records the fields the caller's gaps had when the calls were made)
    tasks, gaps, heap, input_gaps,
    \* match_tasks_to_gaps: locals and result of each invocation
    pcM, sorted_tasks, next_task, available_gaps, scheduled, unscheduled, result,
    \* analyze_calendar_gaps: arguments and locals
    cal_events, start_window, end_window,
    pcG, sorted_events, next_event, current_time, window_gaps,
    \* get_or_create_user: the users table, the arguments of each call, the
    \* row its session has added but not committed, and the user it returns
    users, call, pcU, pending, user

fvars == <<events, day_start, day_end, sleep_start, sleep_end, min_slot_minutes,
           start_from_now, now, pcF, start_dt, end_dt, busy_intervals,
           n_events, merged, free_slots>>
params == <<events, day_start, day_end, sleep_start, sleep_end, min_slot_minutes,
            start_from_now, now>>

mvars == <<tasks, gaps, heap, input_gaps, pcM, sorted_tasks, next_task,
           available_gaps, scheduled, unscheduled, result>>
locals == <<sorted_tasks, next_task, available_gaps, scheduled, unscheduled>>
gvars == <<cal_events, start_window, end_window, pcG, sorted_events, next_event,
           current_time, window_gaps>>
uvars == <<users, call, pcU, pending, user>>
vars == <<fvars, mvars, gvars, uvars>>

TimeInterval(s, e) == [start |-> s, end |-> e]
FreeSlot(k, s, e, d) == [id |-> k, start |-> s, end |-> e, duration_minutes |-> d]

SeqsUpTo(S, n) == UNION {[1..k -> S] : k \in 0..n}

InitFreeFrom(lists) ==
    /\ events \in lists
    /\ day_start \in DayStarts
    /\ day_end \in DayEnds
    /\ sleep_start \in SleepStarts
    /\ sleep_end \in SleepEnds
    /\ min_slot_minutes \in MinSlots
    /\ start_from_now \in BOOLEAN
    /\ now \in (IF start_from_now THEN Nows ELSE {NoNow})
    /\ pcF = "start"
    /\ start_dt = 0
    /\ end_dt = 0
    /\ busy_intervals = <<>>
    /\ n_events = 0
    /\ merged = <<>>
    /\ free_slots = <<>>

InitFree == InitFreeFrom({<<>>})

\* Lines 38-56: the day range, moved to "now" under start_from_now.
EffectiveStart ==
    IF start_from_now /\ now.today /\ now.t > parse_time(day_start)
    THEN Max(parse_time(day_start), now.t)
    ELSE parse_time(day_start)

DefineDayRange ==
    /\ pcF = "start"
    /\ start_dt' = EffectiveStart
    /\ end_dt' = parse_time(day_end)
    /\ IF start_from_now /\ now.today /\ start_dt' >= end_dt'
       THEN pcF' = "done"
       ELSE pcF' = "sleep"
    /\ UNCHANGED <<mvars, gvars, uvars, params, busy_intervals, n_events, merged, free_slots>>

SleepIntervals_NoWrap ==
    <<TimeInterval(parse_time(sleep_start), parse_time(sleep_end))>>

\* Lines 66-86: the sleep window as one or two busy intervals.
SleepIntervals ==
    IF parse_time(sleep_start) > parse_time(sleep_end)
    THEN <<TimeInterval(parse_time(sleep_start), 23 * 3600 + 59 * 60 + 59),
           TimeInterval(0, parse_time(sleep_end))>>
    ELSE <<TimeInterval(parse_time(sleep_start), parse_time(sleep_end))>>

AddSleep ==
    /\ pcF = "sleep"
    /\ busy_intervals' = busy_intervals \o SleepIntervals
    /\ pcF' = "events"
    /\ UNCHANGED <<mvars, gvars, uvars, params, start_dt, end_dt, n_events, merged, free_slots>>

\* Lines 113-118: an event clamped to the day range; kept when non-empty.
ClampKeeps(eff_start, eff_end) == eff_start < eff_end

ClampedEvent(event) ==
    LET eff_start == Max(start_dt, ParseEventTime(event.start_time))
        eff_end == Min(end_dt, ParseEventTime(event.end_time))
    IN IF ClampKeeps(eff_start, eff_end)
       THEN <<TimeInterval(eff_start, eff_end)>>
       ELSE <<>>

EventSkipped_MissingOnly(event) ==
    \/ event.start_time.fmt = "none"
    \/ event.end_time.fmt = "none"

\* Lines 95-96 and 120-122: a missing value or a parse error skips the entry.
EventSkipped(event) ==
    \/ event.start_time.fmt = "none"
    \/ event.end_time.fmt = "none"
    \/ ~Parses(event.start_time)
    \/ ~Parses(event.end_time)

\* Lines 89-122: one iteration of the loop over events.
AddEvent ==
    /\ pcF = "events"
    /\ n_events < MaxEvents
    /\ \E event \in Events :
          busy_intervals' =
              IF EventSkipped(event)
              THEN busy_intervals
              ELSE busy_intervals \o ClampedEvent(event)
    /\ n_events' = n_events + 1
    /\ UNCHANGED <<mvars, gvars, uvars, params, pcF, start_dt, end_dt, merged, free_slots>>

\* Lines 89-122: one iteration of the loop over the list of the call.
AddListedEvent ==
    /\ pcF = "events"
    /\ n_events < Len(events)
    /\ LET event == events[n_events + 1]
       IN busy_intervals' =
              IF EventSkipped(event)
              THEN busy_intervals
              ELSE busy_intervals \o ClampedEvent(event)
    /\ n_events' = n_events + 1
    /\ UNCHANGED <<mvars, gvars, uvars, params, pcF, start_dt, end_dt, merged, free_slots>>

\* Line 138: list.sort(key=start), a stable sort (insertion from the left).
RECURSIVE InsertByStart(_, _)
InsertByStart(sorted, x) ==
    IF sorted = <<>> THEN <<x>>
    ELSE IF Head(sorted).start <= x.start
         THEN <<Head(sorted)>> \o InsertByStart(Tail(sorted), x)
         ELSE <<x>> \o sorted

RECURSIVE SortByStart(_)
SortByStart(s) ==
    IF s = <<>> THEN <<>>
    ELSE InsertByStart(SortByStart(SubSeq(s, 1, Len(s) - 1)), s[Len(s)])

Absorbs_OverlapOnly(current, next_int) == next_int.start < current.end

\* Line 144: the next interval overlaps or touches the current run.
Absorbs(current, next_int) == next_int.start <= current.end

\* A sweep that closes the current run after one absorption.
RECURSIVE MergeSweep_Pairwise(_, _, _)
MergeSweep_Pairwise(rest, current, acc) ==
    IF rest = <<>> THEN Append(acc, current)
    ELSE IF Absorbs(current, Head(rest))
         THEN LET joined == [current EXCEPT !.end = Max(current.end, Head(rest).end)]
              IN IF Len(rest) = 1 THEN Append(acc, joined)
                 ELSE MergeSweep_Pairwise(Tail(Tail(rest)), rest[2], Append(acc, joined))
         ELSE MergeSweep_Pairwise(Tail(rest), Head(rest), Append(acc, current))

\* Lines 140-150: left-to-right sweep over the sorted intervals.
RECURSIVE MergeSweep(_, _, _)
MergeSweep(rest, current, acc) ==
    IF rest = <<>> THEN Append(acc, current)
    ELSE IF Absorbs(current, Head(rest))
         THEN MergeSweep(Tail(rest),
                         [current EXCEPT !.end = Max(current.end, Head(rest).end)],
                         acc)
         ELSE MergeSweep(Tail(rest), Head(rest), Append(acc, current))

Merge(intervals) ==
    LET s == SortByStart(intervals)
    IN IF s = <<>> THEN <<>> ELSE MergeSweep(Tail(s), Head(s), <<>>)

KeepSlot_NoFilter(duration) == duration >= 0

\* Lines 128, 162, 175: the minimum-duration filter.
KeepSlot(duration) == duration >= min_slot_minutes

slot_counter_FromZero(slots) == Len(slots)

\* Lines 156, 164, 168: slot_counter starts at 1 and grows with each append.
slot_counter(slots) == Len(slots) + 1

\* Lines 160-169 / 173-181: the candidate slot [cursor, until).
Candidate(slots, cursor, until) ==
    IF cursor < until /\ KeepSlot(DurationMinutes(cursor, until))
    THEN Append(slots, FreeSlot(slot_counter(slots), strftime(cursor), strftime(until),
                                DurationMinutes(cursor, until)))
    ELSE slots

\* Lines 158-170: the loop over the merged busy blocks.
RECURSIVE InvertLoop(_, _, _)
InvertLoop(blocks, cursor, slots) ==
    IF blocks = <<>> THEN [cursor |-> cursor, slots |-> slots]
    ELSE InvertLoop(Tail(blocks), Max(cursor, Head(blocks).end),
                    Candidate(slots, cursor, Head(blocks).start))

\* Lines 152-183.
Invert(blocks) ==
    LET r == InvertLoop(blocks, start_dt, <<>>)
    IN Candidate(r.slots, r.cursor, end_dt)

\* Lines 124-150: end of the event loop; the whole day is returned as one
\* slot when there is no busy interval at all, otherwise sort and merge.
MergeIntervals ==
    /\ pcF = "events"
    /\ n_events >= Len(events)
    /\ IF busy_intervals = <<>>
       THEN /\ free_slots' =
                   IF KeepSlot(DurationMinutes(start_dt, end_dt))
                   THEN <<FreeSlot(1, strftime(start_dt), strftime(end_dt),
                                   DurationMinutes(start_dt, end_dt))>>
                   ELSE <<>>
            /\ merged' = merged
            /\ pcF' = "done"
       ELSE /\ merged' = Merge(busy_intervals)
            /\ free_slots' = free_slots
            /\ pcF' = "invert"
    /\ UNCHANGED <<mvars, gvars, uvars, params, start_dt, end_dt, busy_intervals, n_events>>

InvertToFreeSlots ==
    /\ pcF = "invert"
    /\ free_slots' = Invert(merged)
    /\ pcF' = "done"
    /\ UNCHANGED <<mvars, gvars, uvars, params, start_dt, end_dt, busy_intervals, n_events, merged>>

NextFree ==
    \/ DefineDayRange
    \/ AddSleep
    \/ AddEvent
    \/ MergeIntervals
    \/ InvertToFreeSlots

NextFreeList ==
    \/ DefineDayRange
    \/ AddSleep
    \/ AddListedEvent
    \/ MergeIntervals
    \/ InvertToFreeSlots


\* ====================================================================
\* TaskMatcher (backend/services/matching_service.py)
\*
\* HH:MM strings of gaps and scheduled tasks are the minute of the day.  A
\* fit score is the exact rational num / den (den > 0) of the float the code
\* computes.  A task title is modelled by the first keyword class of
\* _calculate_fit_score that it matches ("other": none).  A Task carries
\* the fields of app/schemas/task.py (deadline, time_preference); Gap start
\* times are valid HH:MM strings and task durations are positive.  The
\* explanation strings are not modelled.
\* ====================================================================
MinutesPerDay == 1440

\* The module-level TaskMatcher is shared by the request handlers, which
\* run in a thread pool: two invocations may be in progress at once.
Invocations == {1, 2}

NoDeadline == [kind |-> "none", ts |-> 0]
BadDeadline == [kind |-> "bad", ts |-> 0]
Deadline(ts) == [kind |-> "iso", ts |-> ts]

Task(title, duration, priority, deadline, pref) ==
    [id |-> 0, title |-> title, duration_minutes |-> duration,
     priority |-> priority, deadline |-> deadline, time_preference |-> pref]

Gap(start, end, duration) ==
    [start_time |-> start, end_time |-> end, duration_minutes |-> duration]

HM(h, m) == h * 60 + m

TaskPool ==
    {Task("other", 60, "high", NoDeadline, "none"),
     Task("other", 30, "medium", NoDeadline, "none"),
     Task("other", 30, "low", Deadline(1), "none"),
     Task("other", 30, "low", BadDeadline, "none"),
     Task("other", 30, "high", NoDeadline, "evening"),
     Task("dinner", 30, "low", NoDeadline, "none"),
     Task("other", 120, "medium", NoDeadline, "none"),
     Task("study", 60, "low", Deadline(2), "morning")}

GapPool ==
    {Gap(HM(9, 0), HM(10, 0), 60),
     Gap(HM(11, 30), HM(12, 0), 30),
     Gap(HM(14, 0), HM(15, 30), 90),
     Gap(HM(9, 30), HM(10, 30), 60),
     Gap(HM(18, 0), HM(19, 0), 90)}

\* The inputs of the runs with two concurrent invocations.
TaskPool2 ==
    {Task("other", 60, "high", NoDeadline, "none"),
     Task("other", 30, "medium", NoDeadline, "none"),
     Task("dinner", 30, "low", NoDeadline, "none")}

GapPool2 ==
    {Gap(HM(9, 0), HM(10, 0), 60),
     Gap(HM(11, 30), HM(12, 0), 30),
     Gap(HM(14, 0), HM(15, 30), 90)}

\* The tasks and gaps of the script test_matching.py; their titles contain
\* none of the keywords of _calculate_fit_score.
ScenarioTasks ==
    <<Task("other", 60, "high", NoDeadline, "none"),
      Task("other", 30, "medium", NoDeadline, "none"),
      Task("other", 15, "high", NoDeadline, "none"),
      Task("other", 45, "low", NoDeadline, "none")>>

ScenarioGaps ==
    <<Gap(HM(9, 0), HM(10, 0), 60),
      Gap(HM(11, 30), HM(12, 0), 30),
      Gap(HM(14, 0), HM(15, 30), 90)>>

\* The list made of the entries of s at the positions of S, in order.
Pick(s, S) ==
    LET at(k) == CHOOSE p \in S : Cardinality({q \in S : q < p}) = k - 1
    IN [k \in 1..Cardinality(S) |-> s[at(k)]]

SubLists(s) == {Pick(s, S) : S \in SUBSET DOMAIN s}

\* The task list as the caller built it: the id of a task is its position.
Numbered(ts) == [k \in DOMAIN ts |-> [ts[k] EXCEPT !.id = k]]

EmptyResult == [scheduled_tasks |-> <<>>, unscheduled_tasks |-> <<>>, success |-> FALSE]

InitMatchLists(task_lists, gap_lists) ==
    /\ \E ts \in task_lists : tasks = Numbered(ts)
    /\ input_gaps \in gap_lists
    /\ gaps = [k \in DOMAIN input_gaps |-> k]
    /\ heap = input_gaps
    /\ pcM = [i \in Invocations |-> "start"]
    /\ sorted_tasks = [i \in Invocations |-> <<>>]
    /\ next_task = [i \in Invocations |-> 1]
    /\ available_gaps = [i \in Invocations |-> <<>>]
    /\ scheduled = [i \in Invocations |-> <<>>]
    /\ unscheduled = [i \in Invocations |-> <<>>]
    /\ result = [i \in Invocations |-> EmptyResult]

InitMatchFrom(TP, GP) == InitMatchLists(SeqsUpTo(TP, MaxTasks), SeqsUpTo(GP, MaxGaps))

\* Lines 27-31 and 100: priority_weights.get(priority.lower(), 1.0).
priority_weights(priority) ==
    CASE priority = "high" -> 3
      [] priority = "medium" -> 2
      [] priority = "low" -> 1
      [] OTHER -> 1

\* Lines 103-112: the deadline as a sort key; None, "" and an unparseable
\* string count as float('inf').
DeadlineIsInf(task) == task.deadline.kind # "iso"

SortKeyLE_Strict(a, b) ==
    \/ priority_weights(a.priority) > priority_weights(b.priority)
    \/ /\ priority_weights(a.priority) = priority_weights(b.priority)
       /\ a.deadline.kind = "iso"
       /\ (b.deadline.kind # "iso" \/ a.deadline.ts < b.deadline.ts)

\* Lines 99-114: sort_key(a) <= sort_key(b) for (-priority_score, deadline_score).
SortKeyLE(a, b) ==
    \/ priority_weights(a.priority) > priority_weights(b.priority)
    \/ /\ priority_weights(a.priority) = priority_weights(b.priority)
       /\ \/ DeadlineIsInf(b)
          \/ ~DeadlineIsInf(a) /\ a.deadline.ts <= b.deadline.ts

\* Line 116: sorted(tasks, key=sort_key), a stable sort.
RECURSIVE InsertByKey(_, _)
InsertByKey(sorted, x) ==
    IF sorted = <<>> THEN <<x>>
    ELSE IF SortKeyLE(Head(sorted), x)
         THEN <<Head(sorted)>> \o InsertByKey(Tail(sorted), x)
         ELSE <<x>> \o sorted

RECURSIVE prioritize_tasks(_)
prioritize_tasks(ts) ==
    IF ts = <<>> THEN <<>>
    ELSE InsertByKey(prioritize_tasks(SubSeq(ts, 1, Len(ts) - 1)), ts[Len(ts)])

\* Lines 165-176: the boost of an explicit time_preference, in tenths.
PreferenceBoost(task, gap_hour) ==
    IF task.time_preference = "none" THEN 0
    ELSE IF \/ task.time_preference = "morning" /\ 7 <= gap_hour /\ gap_hour <= 12
            \/ task.time_preference = "afternoon" /\ 12 <= gap_hour /\ gap_hour <= 17
            \/ task.time_preference = "evening" /\ 17 <= gap_hour /\ gap_hour <= 21
            \/ task.time_preference = "midday" /\ 11 <= gap_hour /\ gap_hour <= 14
         THEN 20
         ELSE -50

\* Lines 158-237: time_boost, in tenths.  The keyword chain runs after the
\* time_preference branch and overwrites its value wherever it assigns.
time_boost(task, gap_hour) ==
    LET h == gap_hour
        pref == PreferenceBoost(task, gap_hour)
    IN CASE task.title = "breakfast" ->
              IF 7 <= h /\ h <= 10 THEN 30
              ELSE IF h < 7 \/ h > 12 THEN -100 ELSE -20
         [] task.title = "lunch" ->
              IF 11 <= h /\ h <= 14 THEN 30 ELSE -80
         [] task.title = "dinner" ->
              IF 18 <= h /\ h <= 21 THEN 30
              ELSE IF h < 12 THEN -100
              ELSE IF 12 <= h /\ h < 17 THEN -70 ELSE -50
         [] task.title = "study" ->
              IF 9 <= h /\ h <= 15 THEN 15
              ELSE IF h >= 20 THEN -30 ELSE pref
         [] task.title = "social" ->
              IF 14 <= h /\ h <= 21 THEN 15
              ELSE IF h < 10 THEN -50 ELSE -10
         [] task.title = "exercise" ->
              IF (7 <= h /\ h <= 9) \/ (17 <= h /\ h <= 19) THEN 15
              ELSE IF h >= 21 THEN -30 ELSE pref
         [] OTHER ->
              IF task.priority = "high" /\ 9 <= h /\ h <= 12 THEN 2 ELSE pref

\* Lines 139-240: efficiency + priority_boost + time_boost
\*   = t/g + w/3 + b/10 = (30 t + 10 w g + 3 b g) / (30 g).
calculate_fit_score(task, gap) ==
    LET g == gap.duration_minutes
        t == task.duration_minutes
        w == priority_weights(task.priority)
        b == time_boost(task, gap.start_time \div 60)
    IN [num |-> 30 * t + 10 * w * g + 3 * b * g, den |-> 30 * g]

ScoreGreater_OrEqual(a, b) == a.num * b.den >= b.num * a.den

\* Line 133: score > best_score.
ScoreGreater(a, b) == a.num * b.den > b.num * a.den

\* Line 128: best_score = -1, best_match = None (index 0: no match).
NoMatch == [index |-> 0, score |-> [num |-> -1, den |-> 1]]

Qualifies_AnyGap(task, gap) == gap.duration_minutes > 0

Qualifies_LongerOnly(task, gap) == gap.duration_minutes > task.duration_minutes

\* Line 131.
Qualifies(task, gap) == gap.duration_minutes >= task.duration_minutes

\* Lines 130-135: the scan over the available gaps, from position i on.
RECURSIVE BestGapScan(_, _, _, _)
BestGapScan(task, avail, i, best) ==
    IF i > Len(avail) THEN best
    ELSE LET gap == heap[avail[i]]
             score == calculate_fit_score(task, gap)
         IN IF Qualifies(task, gap) /\ ScoreGreater(score, best.score)
            THEN BestGapScan(task, avail, i + 1, [index |-> i, score |-> score])
            ELSE BestGapScan(task, avail, i + 1, best)

\* Lines 118-137: index is the 1-based position in the available list.
find_best_gap(task, avail) == BestGapScan(task, avail, 1, NoMatch)

schedule_task_in_gap_WholeGap(task, gap, gap_index, fit_score) ==
    [task |-> task,
     start_time |-> gap.start_time % MinutesPerDay,
     end_time |-> (gap.start_time + gap.duration_minutes) % MinutesPerDay,
     gap_index |-> gap_index,
     fit_score |-> fit_score]

\* Lines 253-266: strptime, + timedelta, strftime.
schedule_task_in_gap(task, gap, gap_index, fit_score) ==
    [task |-> task,
     start_time |-> gap.start_time % MinutesPerDay,
     end_time |-> (gap.start_time + task.duration_minutes) % MinutesPerDay,
     gap_index |-> gap_index,
     fit_score |-> fit_score]

ConsumedGap_KeepStart(gap, duration) ==
    [gap EXCEPT !.duration_minutes = gap.duration_minutes - duration]

\* Lines 279-284: the Gap object after the assignment.
ConsumedGap(gap, duration) ==
    [gap EXCEPT !.start_time = (gap.start_time + duration) % MinutesPerDay,
                !.duration_minutes = gap.duration_minutes - duration]

RemoveIfEmpty_Negative(avail, k, gap) ==
    IF gap.duration_minutes < 0
    THEN SubSeq(avail, 1, k - 1) \o SubSeq(avail, k + 1, Len(avail))
    ELSE avail

\* Lines 287-288: gaps.pop(gap_index) when no time is left.
RemoveIfEmpty(avail, k, gap) ==
    IF gap.duration_minutes <= 0
    THEN SubSeq(avail, 1, k - 1) \o SubSeq(avail, k + 1, Len(avail))
    ELSE avail

CopyGaps_Shallow(i) == [list |-> gaps, heap |-> heap]

\* Line 68: [gap.model_copy(deep=True) for gap in gaps]: fresh Gap objects.
CopyGaps(i) ==
    LET n == Len(gaps)
        fresh == [k \in 1..n |-> n * i + k]
    IN [list |-> fresh,
        heap |-> heap @@ [id \in {fresh[k] : k \in 1..n} |-> heap[gaps[id - n * i]]]]

\* Lines 48-54.
ReturnNoTasks(i) ==
    /\ pcM[i] = "start"
    /\ tasks = <<>>
    /\ result' = [result EXCEPT ![i] =
                     [scheduled_tasks |-> <<>>, unscheduled_tasks |-> <<>>,
                      success |-> TRUE]]
    /\ pcM' = [pcM EXCEPT ![i] = "done"]
    /\ UNCHANGED <<fvars, gvars, uvars, tasks, gaps, heap, input_gaps, locals>>

ReturnNoGaps_DropsTasks(i) ==
    /\ pcM[i] = "start"
    /\ tasks # <<>>
    /\ gaps = <<>>
    /\ result' = [result EXCEPT ![i] =
                     [scheduled_tasks |-> <<>>, unscheduled_tasks |-> <<>>,
                      success |-> FALSE]]
    /\ pcM' = [pcM EXCEPT ![i] = "done"]
    /\ UNCHANGED <<fvars, gvars, uvars, tasks, gaps, heap, input_gaps, locals>>

\* Lines 56-62.
ReturnNoGaps(i) ==
    /\ pcM[i] = "start"
    /\ tasks # <<>>
    /\ gaps = <<>>
    /\ result' = [result EXCEPT ![i] =
                     [scheduled_tasks |-> <<>>, unscheduled_tasks |-> tasks,
                      success |-> FALSE]]
    /\ pcM' = [pcM EXCEPT ![i] = "done"]
    /\ UNCHANGED <<fvars, gvars, uvars, tasks, gaps, heap, input_gaps, locals>>

\* Lines 64-71.
Prepare(i) ==
    /\ pcM[i] = "start"
    /\ tasks # <<>>
    /\ gaps # <<>>
    /\ sorted_tasks' = [sorted_tasks EXCEPT ![i] = prioritize_tasks(tasks)]
    /\ available_gaps' = [available_gaps EXCEPT ![i] = CopyGaps(i).list]
    /\ heap' = CopyGaps(i).heap
    /\ scheduled' = [scheduled EXCEPT ![i] = <<>>]
    /\ unscheduled' = [unscheduled EXCEPT ![i] = <<>>]
    /\ next_task' = [next_task EXCEPT ![i] = 1]
    /\ pcM' = [pcM EXCEPT ![i] = "loop"]
    /\ UNCHANGED <<fvars, gvars, uvars, tasks, gaps, input_gaps, result>>

\* Lines 73-84: one iteration of the loop, a gap was found.
ScheduleTask(i) ==
    /\ pcM[i] = "loop"
    /\ next_task[i] <= Len(sorted_tasks[i])
    /\ LET task == sorted_tasks[i][next_task[i]]
           best == find_best_gap(task, available_gaps[i])
           ref == available_gaps[i][best.index]
           after == ConsumedGap(heap[ref], task.duration_minutes)
       IN /\ best.index # 0
          /\ scheduled' = [scheduled EXCEPT ![i] =
                 Append(@, schedule_task_in_gap(task, heap[ref], best.index - 1,
                                                best.score))]
          /\ heap' = [heap EXCEPT ![ref] = after]
          /\ available_gaps' = [available_gaps EXCEPT ![i] =
                 RemoveIfEmpty(@, best.index, after)]
    /\ next_task' = [next_task EXCEPT ![i] = @ + 1]
    /\ UNCHANGED <<fvars, gvars, uvars, tasks, gaps, input_gaps, pcM, sorted_tasks, unscheduled, result>>

LeaveUnscheduled_Dropped(i) ==
    /\ pcM[i] = "loop"
    /\ next_task[i] <= Len(sorted_tasks[i])
    /\ find_best_gap(sorted_tasks[i][next_task[i]], available_gaps[i]).index = 0
    /\ next_task' = [next_task EXCEPT ![i] = @ + 1]
    /\ UNCHANGED <<fvars, gvars, uvars, tasks, gaps, heap, input_gaps, pcM, sorted_tasks,
                   available_gaps, scheduled, unscheduled, result>>

\* Lines 73-76 and 85-86: one iteration of the loop, no gap was found.
LeaveUnscheduled(i) ==
    /\ pcM[i] = "loop"
    /\ next_task[i] <= Len(sorted_tasks[i])
    /\ LET task == sorted_tasks[i][next_task[i]]
       IN /\ find_best_gap(task, available_gaps[i]).index = 0
          /\ unscheduled' = [unscheduled EXCEPT ![i] = Append(@, task)]
    /\ next_task' = [next_task EXCEPT ![i] = @ + 1]
    /\ UNCHANGED <<fvars, gvars, uvars, tasks, gaps, heap, input_gaps, pcM, sorted_tasks,
                   available_gaps, scheduled, result>>

Success_Always(unsched) == TRUE

\* Line 94.
Success(unsched) == Len(unsched) = 0

\* Lines 88-95.
ReturnResult(i) ==
    /\ pcM[i] = "loop"
    /\ next_task[i] > Len(sorted_tasks[i])
    /\ result' = [result EXCEPT ![i] =
                     [scheduled_tasks |-> scheduled[i],
                      unscheduled_tasks |-> unscheduled[i],
                      success |-> Success(unscheduled[i])]]
    /\ pcM' = [pcM EXCEPT ![i] = "done"]
    /\ UNCHANGED <<fvars, gvars, uvars, tasks, gaps, heap, input_gaps, locals>>

match_tasks_to_gaps(i) ==
    \/ ReturnNoTasks(i)
    \/ ReturnNoGaps(i)
    \/ Prepare(i)
    \/ ScheduleTask(i)
    \/ LeaveUnscheduled(i)
    \/ ReturnResult(i)

\* ====================================================================
\* AIService.analyze_calendar_gaps (backend/app/services/ai_service.py)
\*
\* A time string is kept with its characters (digits 0-9, ':' as 10, which
\* is their order as code points), so that sorting by the string is sorting
\* by its text.  The events here carry HH:MM strings with start before end;
\* lines 64-84 leave such strings as they are.  Gap times are written by
\* strftime and are the minute of the day.
\* ====================================================================
Colon == 10

\* "HH:MM" when padded, "H:MM" otherwise (hours below 10 only).
TimeStr(h, m, padded) ==
    [h |-> h, m |-> m,
     text |-> IF padded
              THEN <<h \div 10, h % 10, Colon, m \div 10, m % 10>>
              ELSE <<h, Colon, m \div 10, m % 10>>]

\* datetime.strptime(s, "%H:%M"): the minute of the day.
strptime(str) == str.h * 60 + str.m

\* a <= b for Python strings: comparison character by character.
RECURSIVE TextLE(_, _)
TextLE(a, b) ==
    IF a = <<>> THEN TRUE
    ELSE IF b = <<>> THEN FALSE
    ELSE IF Head(a) # Head(b) THEN Head(a) < Head(b)
    ELSE TextLE(Tail(a), Tail(b))

Event(start, end) == [start_time |-> start, end_time |-> end]

CalendarEvents ==
    {Event(TimeStr(9, 0, TRUE), TimeStr(10, 0, TRUE)),
     Event(TimeStr(12, 0, TRUE), TimeStr(13, 0, TRUE)),
     Event(TimeStr(9, 0, FALSE), TimeStr(9, 30, FALSE)),
     Event(TimeStr(7, 0, TRUE), TimeStr(9, 30, TRUE)),
     Event(TimeStr(23, 0, TRUE), TimeStr(23, 30, TRUE))}
StartWindows == {TimeStr(8, 0, TRUE), TimeStr(10, 0, TRUE)}
EndWindows == {TimeStr(18, 0, TRUE), TimeStr(22, 0, TRUE)}

InitGaps ==
    /\ cal_events \in SeqsUpTo(CalendarEvents, MaxEvents)
    /\ start_window \in StartWindows
    /\ end_window \in EndWindows
    /\ pcG = "start"
    /\ sorted_events = <<>>
    /\ next_event = 1
    /\ current_time = 0
    /\ window_gaps = <<>>

\* Line 87: sorted(processed_events, key=lambda x: x.start_time), a stable
\* sort on the string.
RECURSIVE InsertByText(_, _)
InsertByText(sorted, x) ==
    IF sorted = <<>> THEN <<x>>
    ELSE IF TextLE(Head(sorted).start_time.text, x.start_time.text)
         THEN <<Head(sorted)>> \o InsertByText(Tail(sorted), x)
         ELSE <<x>> \o sorted

RECURSIVE SortByText(_)
SortByText(evs) ==
    IF evs = <<>> THEN <<>>
    ELSE InsertByText(SortByText(SubSeq(evs, 1, Len(evs) - 1)), evs[Len(evs)])

\* Lines 59-91: the processed events sorted, the cursor at start_window.
SortEvents ==
    /\ pcG = "start"
    /\ sorted_events' = SortByText(cal_events)
    /\ current_time' = strptime(start_window)
    /\ next_event' = 1
    /\ window_gaps' = <<>>
    /\ pcG' = "loop"
    /\ UNCHANGED <<fvars, mvars, uvars, cal_events, start_window, end_window>>

\* Lines 98-105 and 111-118: the gap [from, to) when it has minutes.
GapBetween(from, to) ==
    IF from < to /\ to - from > 0
    THEN <<Gap(from, to, to - from)>>
    ELSE <<>>

\* Lines 93-109: one iteration of the loop over the sorted events.
GapBeforeEvent ==
    /\ pcG = "loop"
    /\ next_event <= Len(sorted_events)
    /\ LET event == sorted_events[next_event]
           event_start == strptime(event.start_time)
           event_end == strptime(event.end_time)
       IN /\ window_gaps' = window_gaps \o GapBetween(current_time, event_start)
          /\ current_time' = Max(current_time, event_end)
    /\ next_event' = next_event + 1
    /\ UNCHANGED <<fvars, mvars, uvars, cal_events, start_window, end_window, pcG,
                   sorted_events>>

\* Lines 111-122: the gap after the last event, up to end_window.
GapAfterLast ==
    /\ pcG = "loop"
    /\ next_event > Len(sorted_events)
    /\ window_gaps' = window_gaps \o GapBetween(current_time, strptime(end_window))
    /\ pcG' = "done"
    /\ UNCHANGED <<fvars, mvars, uvars, cal_events, start_window, end_window,
                   sorted_events, next_event, current_time>>

analyze_calendar_gaps ==
    \/ SortEvents
    \/ GapBeforeEvent
    \/ GapAfterLast

\* ====================================================================
\* get_or_create_user (backend/app/api/v1/endpoints/optimization.py and
\* calendar.py): each call runs in the database session of its request.
\* A row of the users table is its clerk_user_id, its email and its primary
\* key, given here as the call that inserted it (0: it was there before).
\* ====================================================================
Callers == {1, 2}
ClerkIds == {"user_a", "user_b"}
NoEmail == "none"
Emails == {"a@mail.org", NoEmail}
NoRow == [clerk_user_id |-> "", email |-> "", key |-> 0]
Row(id, email, key) == [clerk_user_id |-> id, email |-> email, key |-> key]
ExistingRows == {Row(id, "old@mail.org", 0) : id \in ClerkIds}

InitUsers ==
    /\ users \in SUBSET ExistingRows
    /\ call \in [Callers -> [clerk_user_id : ClerkIds, email : Emails]]
    /\ pcU = [p \in Callers |-> "query"]
    /\ pending = [p \in Callers |-> NoRow]
    /\ user = [p \in Callers |-> NoRow]

\* db.query(User).filter(User.clerk_user_id == clerk_user_id): committed rows.
RowsOf(id) == {r \in users : r.clerk_user_id = id}

\* Lines 32-33 (and 45 when the row is there).
Query(p) ==
    /\ pcU[p] = "query"
    /\ IF RowsOf(call[p].clerk_user_id) # {}
       THEN /\ \E r \in RowsOf(call[p].clerk_user_id) : user' = [user EXCEPT ![p] = r]
            /\ pcU' = [pcU EXCEPT ![p] = "returned"]
       ELSE /\ user' = user
            /\ pcU' = [pcU EXCEPT ![p] = "add"]
    /\ UNCHANGED <<fvars, mvars, gvars, users, call, pending>>

\* Line 34: email or f"{clerk_user_id}@noemail.com".
EmailOf(c) == IF c.email = NoEmail THEN c.clerk_user_id \o "@noemail.com" ELSE c.email

UniqueViolation_NoConstraint(id) == FALSE

\* clerk_user_id = Column(String, unique=True, ...): the INSERT fails when a
\* committed row has the same clerk_user_id.
UniqueViolation(id) == RowsOf(id) # {}

\* The INSERT waits while another session holds an uncommitted row with the
\* same clerk_user_id in the unique index.
WaitsForInsert(p) ==
    \E q \in Callers \ {p} : pending[q].clerk_user_id = call[p].clerk_user_id

\* Lines 35-38: db.add(user) and the INSERT that db.commit() flushes; a unique
\* violation raises inside the try.
Insert(p) ==
    /\ pcU[p] = "add"
    /\ ~WaitsForInsert(p)
    /\ IF UniqueViolation(call[p].clerk_user_id)
       THEN /\ pending' = pending
            /\ pcU' = [pcU EXCEPT ![p] = "rollback"]
       ELSE /\ pending' = [pending EXCEPT ![p] =
                              Row(call[p].clerk_user_id, EmailOf(call[p]), p)]
            /\ pcU' = [pcU EXCEPT ![p] = "commit"]
    /\ UNCHANGED <<fvars, mvars, gvars, users, call, user>>

\* Lines 38-39 and 45: the COMMIT, db.refresh(user), return user.
Commit(p) ==
    /\ pcU[p] = "commit"
    /\ users' = users \cup {pending[p]}
    /\ user' = [user EXCEPT ![p] = pending[p]]
    /\ pending' = [pending EXCEPT ![p] = NoRow]
    /\ pcU' = [pcU EXCEPT ![p] = "returned"]
    /\ UNCHANGED <<fvars, mvars, gvars, call>>

\* Lines 40-45: db.rollback(), the second query, raise e when it finds no row.
Requery(p) ==
    /\ pcU[p] = "rollback"
    /\ IF RowsOf(call[p].clerk_user_id) # {}
       THEN /\ \E r \in RowsOf(call[p].clerk_user_id) : user' = [user EXCEPT ![p] = r]
            /\ pcU' = [pcU EXCEPT ![p] = "returned"]
       ELSE /\ user' = user
            /\ pcU' = [pcU EXCEPT ![p] = "raised"]
    /\ UNCHANGED <<fvars, mvars, gvars, users, call, pending>>

get_or_create_user(p) ==
    \/ Query(p)
    \/ Insert(p)
    \/ Commit(p)
    \/ Requery(p)

\* ====================================================================
\* Specifications
\* ====================================================================
\* The part of the state a specification does not exercise.
IdleFree ==
    /\ events = <<>>
    /\ day_start = HHMM(0, 0)
    /\ day_end = HHMM(23, 59)
    /\ sleep_start = HHMM(23, 0)
    /\ sleep_end = HHMM(7, 0)
    /\ min_slot_minutes = 15
    /\ start_from_now = FALSE
    /\ now = NoNow
    /\ pcF = "idle"
    /\ start_dt = 0
    /\ end_dt = 0
    /\ busy_intervals = <<>>
    /\ n_events = 0
    /\ merged = <<>>
    /\ free_slots = <<>>

IdleMatch ==
    /\ tasks = <<>>
    /\ input_gaps = <<>>
    /\ gaps = <<>>
    /\ heap = <<>>
    /\ pcM = [i \in Invocations |-> "idle"]
    /\ sorted_tasks = [i \in Invocations |-> <<>>]
    /\ next_task = [i \in Invocations |-> 1]
    /\ available_gaps = [i \in Invocations |-> <<>>]
    /\ scheduled = [i \in Invocations |-> <<>>]
    /\ unscheduled = [i \in Invocations |-> <<>>]
    /\ result = [i \in Invocations |-> EmptyResult]

IdleGaps ==
    /\ cal_events = <<>>
    /\ start_window = TimeStr(8, 0, TRUE)
    /\ end_window = TimeStr(22, 0, TRUE)
    /\ pcG = "idle"
    /\ sorted_events = <<>>
    /\ next_event = 1
    /\ current_time = 0
    /\ window_gaps = <<>>

IdleUsers ==
    /\ users = {}
    /\ call = [p \in Callers |-> [clerk_user_id |-> "user_a", email |-> NoEmail]]
    /\ pcU = [p \in Callers |-> "idle"]
    /\ pending = [p \in Callers |-> NoRow]
    /\ user = [p \in Callers |-> NoRow]

\* One call of calculate_free_slots.
InitSpecFree == InitFree /\ IdleMatch /\ IdleGaps /\ IdleUsers
SpecFree == InitSpecFree /\ [][NextFree]_vars

\* One call of calculate_free_slots with a list of events fixed by the call.
InitSpecFreeList ==
    InitFreeFrom(SeqsUpTo(ListedEvents, MaxEvents)) /\ IdleMatch /\ IdleGaps /\ IdleUsers
SpecFreeList == InitSpecFreeList /\ [][NextFreeList]_vars

\* One call of match_tasks_to_gaps.
InitSpecMatch == InitMatchFrom(TaskPool, GapPool) /\ IdleFree /\ IdleGaps /\ IdleUsers
NextSpecMatch == match_tasks_to_gaps(1)
SpecMatch == InitSpecMatch /\ [][NextSpecMatch]_vars

\* Two concurrent calls of match_tasks_to_gaps with the same arguments.
InitSpecMatch2 == InitMatchFrom(TaskPool2, GapPool2) /\ IdleFree /\ IdleGaps /\ IdleUsers
NextSpecMatch2 == \E i \in Invocations : match_tasks_to_gaps(i)
SpecMatch2 == InitSpecMatch2 /\ [][NextSpecMatch2]_vars

\* One call of match_tasks_to_gaps on tasks and gaps taken from the lists of
\* test_matching.py.
InitSpecScenario ==
    InitMatchLists(SubLists(ScenarioTasks), SubLists(ScenarioGaps))
        /\ IdleFree /\ IdleGaps /\ IdleUsers
NextSpecScenario == match_tasks_to_gaps(1)
SpecScenario == InitSpecScenario /\ [][NextSpecScenario]_vars

\* One call of analyze_calendar_gaps.
InitSpecGaps == InitGaps /\ IdleFree /\ IdleMatch /\ IdleUsers
SpecGaps == InitSpecGaps /\ [][analyze_calendar_gaps]_vars

\* The calls of get_or_create_user of two concurrent requests.
InitSpecUsers == InitUsers /\ IdleFree /\ IdleMatch /\ IdleGaps
NextSpecUsers == \E p \in Callers : get_or_create_user(p)
SpecUsers == InitSpecUsers /\ [][NextSpecUsers]_vars

\* ====================================================================
\* Properties of calculate_free_slots (checked under SpecFree)
\* ====================================================================
FreeDone == pcF = "done"
SlotSet == {free_slots[k] : k \in DOMAIN free_slots}
BusySet == {busy_intervals[k] : k \in DOMAIN busy_intervals}

\* The returned slot as an interval of seconds of the day: its HH:MM bounds.
SlotFrom(slot) == slot.start * 60
SlotTo(slot) == slot.end * 60

\* Half-open intervals [a1, a2) and [b1, b2) share a point.
Intersects(a1, a2, b1, b2) == Max(a1, b1) < Min(a2, b2)

\* C1: no returned free slot [start, end) intersects a busy interval of the
\* call: neither a sleep sub-interval nor a parsed event clamped to the day.
C1_NoSlotIntersectsBusy ==
    FreeDone =>
        \A slot \in SlotSet : \A busy \in BusySet :
            ~Intersects(SlotFrom(slot), SlotTo(slot), busy.start, busy.end)

\* The maximal free spans of [start_dt, end_dt): their bounds are bounds of
\* the day range or of busy intervals.
FreePoints == {start_dt, end_dt} \cup {b.start : b \in BusySet} \cup {b.end : b \in BusySet}
IsFreeSpan(a, b) ==
    /\ a < b
    /\ start_dt <= a
    /\ b <= end_dt
    /\ \A busy \in BusySet : ~Intersects(a, b, busy.start, busy.end)
MaximalFreeSpans ==
    {p \in FreePoints \X FreePoints :
        /\ IsFreeSpan(p[1], p[2])
        /\ \A q \in FreePoints \X FreePoints :
              (IsFreeSpan(q[1], q[2]) /\ q[1] <= p[1] /\ p[2] <= q[2]) => q = p}

\* C6: the returned slots are exactly the maximal sub-intervals of
\* [effective_start, day_end) covered by no busy interval whose length is at
\* least min_slot_minutes.
C6_SlotsAreMaximalFreeSpans ==
    FreeDone =>
        {<<SlotFrom(slot), SlotTo(slot)>> : slot \in SlotSet}
            = {p \in MaximalFreeSpans : p[2] - p[1] >= min_slot_minutes * 60}

\* C7: every returned slot satisfies effective_start <= start < end <= day_end.
C7_SlotsInsideDayRange ==
    FreeDone =>
        \A slot \in SlotSet :
            /\ EffectiveStart <= SlotFrom(slot)
            /\ SlotFrom(slot) < SlotTo(slot)
            /\ SlotTo(slot) <= parse_time(day_end)

\* C8: every returned FreeSlot has duration_minutes >= min_slot_minutes, and
\* the span between its start and end is not shorter than min_slot_minutes.
C8_SlotsReachMinimum ==
    FreeDone =>
        \A slot \in SlotSet :
            /\ slot.duration_minutes >= min_slot_minutes
            /\ slot.end - slot.start >= min_slot_minutes

\* A run in which a free fragment below the threshold lay between two busy
\* blocks and was dropped, while another slot was returned.
C8_Witness ==
    /\ FreeDone
    /\ free_slots # <<>>
    /\ \E k \in 1..(Len(merged) - 1) :
          /\ start_dt <= merged[k].end
          /\ DurationMinutes(merged[k].end, merged[k + 1].start) < min_slot_minutes

\* C12: for every returned FreeSlot, duration_minutes is exactly the number
\* of minutes between the returned start and end, whatever the current time
\* under start_from_now and whatever seconds the event times carry.
C12_DurationIsEndMinusStart ==
    FreeDone =>
        \A slot \in SlotSet : slot.duration_minutes = slot.end - slot.start

\* C15: the merge (sort by start, left-to-right sweep) applied to its own
\* output returns that output unchanged.
C15_MergeIdempotent ==
    pcF \in {"invert", "done"} => Merge(merged) = merged

\* The merge has joined intervals of the busy list and left several blocks.
C15_Witness ==
    /\ pcF = "invert"
    /\ Len(merged) >= 2
    /\ Len(merged) + 2 <= Len(busy_intervals)

\* C14: the returned slots are in strictly increasing chronological order
\* and the k-th slot has id slot_k: a fragment dropped by the minimum-duration
\* filter takes no id.
C14_ChronologicalSequentialIds ==
    FreeDone =>
        \A k \in DOMAIN free_slots :
            /\ free_slots[k].id = k
            /\ k < Len(free_slots) =>
                  /\ free_slots[k].start < free_slots[k + 1].start
                  /\ free_slots[k].end <= free_slots[k + 1].start

\* A run that returned a slot before and a slot after a free fragment that
\* the filter dropped.
C14_Witness ==
    /\ FreeDone
    /\ \E k \in 1..(Len(merged) - 1) :
          /\ start_dt <= merged[k].end
          /\ merged[k].end < merged[k + 1].start
          /\ ~KeepSlot(DurationMinutes(merged[k].end, merged[k + 1].start))
          /\ \E a, b \in DOMAIN free_slots :
                /\ b = a + 1
                /\ SlotTo(free_slots[a]) <= merged[k].start
                /\ merged[k + 1].end <= SlotFrom(free_slots[b]) + 59

\* An entry whose start_time and end_time are both present and parseable.
WellFormedEntry(event) ==
    /\ event.start_time.fmt \in {"HH:MM", "ISO"}
    /\ event.end_time.fmt \in {"HH:MM", "ISO"}

RECURSIVE ClampedAll(_)
ClampedAll(evs) ==
    IF evs = <<>> THEN <<>> ELSE ClampedEvent(Head(evs)) \o ClampedAll(Tail(evs))

\* The early return of the call under start_from_now.
ReturnedEarly == start_from_now /\ now.today /\ start_dt >= end_dt

\* The result of the call for a list of well-formed entries.
FreeSlotsFor(evs) ==
    IF ReturnedEarly THEN <<>>
    ELSE Invert(Merge(SleepIntervals \o ClampedAll(evs)))

\* C16: an entry whose start_time or end_time is missing or unparseable is
\* skipped without ending the call: the entries after it are processed and
\* the result is the result for the list without the malformed entries.
C16_MalformedEntriesSkipped ==
    FreeDone =>
        /\ ~ReturnedEarly => n_events = Len(events)
        /\ free_slots = FreeSlotsFor(SelectSeq(events, WellFormedEntry))

\* A returned call whose list holds a malformed entry followed by a
\* well-formed one that became a busy interval.
C16_Witness ==
    /\ FreeDone
    /\ free_slots # <<>>
    /\ \E k, l \in DOMAIN events :
          /\ k < l
          /\ ~WellFormedEntry(events[k])
          /\ WellFormedEntry(events[l])
          /\ ClampedEvent(events[l]) # <<>>
          /\ ClampedEvent(events[l])[1] \in BusySet

\* C17: whenever effective_start >= day_end the call returns the empty
\* sequence, whether effective_start is day_start or max(day_start, now).
C17_EmptyWhenStartNotBeforeEnd ==
    (FreeDone /\ EffectiveStart >= parse_time(day_end)) => free_slots = <<>>

\* The call of the scenario: events 09:00-10:00 and 12:00-13:00, default day
\* bounds and sleep window, min_slot_minutes 15.
Scenario19 ==
    /\ events = <<[start_time |-> HHMM(9, 0), end_time |-> HHMM(10, 0)],
                  [start_time |-> HHMM(12, 0), end_time |-> HHMM(13, 0)]>>
    /\ day_start = HHMM(0, 0)
    /\ day_end = HHMM(23, 59)
    /\ sleep_start = HHMM(23, 0)
    /\ sleep_end = HHMM(7, 0)
    /\ min_slot_minutes = 15
    /\ ~start_from_now

\* C19: the scenario returns exactly the slots 07:00-09:00 (120 min),
\* 10:00-12:00 (120 min) and 13:00-23:00 (600 min), in that order.
C19_ScenarioThreeSlots ==
    (FreeDone /\ Scenario19) =>
        free_slots = <<FreeSlot(1, 7 * 60, 9 * 60, 120),
                       FreeSlot(2, 10 * 60, 12 * 60, 120),
                       FreeSlot(3, 13 * 60, 23 * 60, 600)>>

\* The call of the scenario has returned, after merging four busy blocks.
C19_Witness ==
    /\ FreeDone
    /\ Scenario19
    /\ Len(merged) = 4

\* The merged list has been built.
Merged == pcF = "invert" \/ (FreeDone /\ ~ReturnedEarly)
MergedSet == {merged[k] : k \in DOMAIN merged}
Within(busy, block) == block.start <= busy.start /\ busy.end <= block.end

\* C25: the merged busy sequence is sorted and minimal: consecutive blocks
\* a, b have a.end < b.start, and every busy interval lies in one block that
\* spans from the earliest start to the latest end of the intervals in it.
C25_MergedSortedAndMinimal ==
    Merged =>
        /\ \A k \in 1..(Len(merged) - 1) : merged[k].end < merged[k + 1].start
        /\ \A busy \in BusySet : \E block \in MergedSet : Within(busy, block)
        /\ \A block \in MergedSet :
              /\ \E busy \in BusySet : busy.start = block.start /\ Within(busy, block)
              /\ \E busy \in BusySet : busy.end = block.end /\ Within(busy, block)

\* Two busy intervals that touch ended up in one block, next to another block.
C25_Witness ==
    /\ Merged
    /\ Len(merged) >= 2
    /\ \E a, b \in BusySet :
          /\ a.start < a.end
          /\ a.end = b.start
          /\ b.start < b.end
          /\ \E block \in MergedSet : block.start = a.start /\ block.end = b.end

\* C26: every interval of the busy set, from an event or from the sleep
\* window, has start < end.
C26_BusyIntervalsNonEmpty ==
    \A busy \in BusySet : busy.start < busy.end

\* The blocks of the sleep window, in seconds of the day: two when the window
\* wraps midnight, one otherwise.
SleepFrom == sleep_start.h * 3600 + sleep_start.m * 60
SleepTo == sleep_end.h * 3600 + sleep_end.m * 60
SleepBlocks ==
    IF SleepFrom > SleepTo
    THEN <<TimeInterval(SleepFrom, 23 * 3600 + 59 * 60 + 59), TimeInterval(0, SleepTo)>>
    ELSE <<TimeInterval(SleepFrom, SleepTo)>>

\* A call without events, with the default day bounds, a sleep window that
\* wraps midnight and start_from_now off.
WrappingSleepOnly ==
    /\ events = <<>>
    /\ day_start = HHMM(0, 0)
    /\ day_end = HHMM(23, 59)
    /\ ~start_from_now
    /\ SleepFrom > SleepTo

\* C27: the sleep window enters the busy list as two blocks when sleep_start
\* > sleep_end and as one block otherwise; without events, with the default
\* day bounds and a wrapping sleep window the call returns exactly the slot
\* [sleep_end, sleep_start).
C27_SleepBlocksAndSingleSlot ==
    /\ (pcF \in {"events", "invert"} \/ (FreeDone /\ ~ReturnedEarly)) =>
          /\ Len(busy_intervals) >= Len(SleepBlocks)
          /\ SubSeq(busy_intervals, 1, Len(SleepBlocks)) = SleepBlocks
    /\ (FreeDone /\ WrappingSleepOnly) =>
          free_slots = <<FreeSlot(1, SleepTo \div 60, SleepFrom \div 60,
                                  (SleepFrom - SleepTo) \div 60)>>

\* A call without events and with a wrapping sleep window has returned.
C27_Witness ==
    /\ FreeDone
    /\ WrappingSleepOnly
    /\ Len(busy_intervals) = 2
    /\ free_slots # <<>>

\* ====================================================================
\* Properties of match_tasks_to_gaps (checked under SpecMatch, SpecMatch2)
\* ====================================================================
Returned(i) == pcM[i] = "done"

\* The caller's gaps are pairwise disjoint, lie within one day and have
\* duration_minutes = end_time - start_time > 0.
WellFormedGaps ==
    /\ \A k \in DOMAIN input_gaps :
          /\ 0 <= input_gaps[k].start_time
          /\ input_gaps[k].end_time < MinutesPerDay
          /\ input_gaps[k].duration_minutes > 0
          /\ input_gaps[k].duration_minutes
                = input_gaps[k].end_time - input_gaps[k].start_time
    /\ \A k, l \in DOMAIN input_gaps :
          k # l => ~Intersects(input_gaps[k].start_time, input_gaps[k].end_time,
                               input_gaps[l].start_time, input_gaps[l].end_time)
PositiveDurations == \A k \in DOMAIN tasks : tasks[k].duration_minutes > 0

InsideGap(st, gap) ==
    /\ gap.start_time <= st.start_time
    /\ st.start_time < st.end_time
    /\ st.end_time <= gap.end_time

\* C2: for well-formed gaps and positive task durations, the scheduled
\* ranges [start_time, end_time) of one call are pairwise disjoint and each
\* lies inside one of the caller's original gaps.
C2_ScheduledDisjointInsideGaps ==
    (WellFormedGaps /\ PositiveDurations) =>
        \A i \in Invocations :
            /\ \A a, b \in DOMAIN scheduled[i] :
                  a # b => ~Intersects(scheduled[i][a].start_time,
                                       scheduled[i][a].end_time,
                                       scheduled[i][b].start_time,
                                       scheduled[i][b].end_time)
            /\ \A a \in DOMAIN scheduled[i] :
                  \E k \in DOMAIN input_gaps : InsideGap(scheduled[i][a], input_gaps[k])

\* A returned schedule for well-formed gaps with two tasks placed one after
\* the other inside the same original gap.
C2_Witness ==
    /\ WellFormedGaps
    /\ PositiveDurations
    /\ \E i \in Invocations :
          /\ Returned(i)
          /\ \E a, b \in DOMAIN result[i].scheduled_tasks : \E k \in DOMAIN input_gaps :
                /\ a # b
                /\ InsideGap(result[i].scheduled_tasks[a], input_gaps[k])
                /\ InsideGap(result[i].scheduled_tasks[b], input_gaps[k])

\* The tasks of a result, scheduled first.
ResultTasks(r) ==
    [k \in DOMAIN r.scheduled_tasks |-> r.scheduled_tasks[k].task] \o r.unscheduled_tasks
Occurrences(seq, x) == Cardinality({k \in DOMAIN seq : seq[k] = x})

\* C3: every input task appears exactly once in scheduled_tasks or in
\* unscheduled_tasks, never in both or twice, and nothing else appears.
C3_TasksPartitioned ==
    \A i \in Invocations :
        Returned(i) =>
            /\ Len(ResultTasks(result[i])) = Len(tasks)
            /\ \A k \in DOMAIN tasks : Occurrences(ResultTasks(result[i]), tasks[k]) = 1
            /\ \A a \in DOMAIN result[i].scheduled_tasks :
                  \A b \in DOMAIN result[i].unscheduled_tasks :
                      result[i].scheduled_tasks[a].task # result[i].unscheduled_tasks[b]

\* A returned result with a scheduled and an unscheduled task.
C3_Witness ==
    \E i \in Invocations :
        /\ Returned(i)
        /\ result[i].scheduled_tasks # <<>>
        /\ result[i].unscheduled_tasks # <<>>

\* Some currently available gap is long enough for the task.
SomeGapQualifies(i, task) ==
    \E k \in DOMAIN available_gaps[i] :
        heap[available_gaps[i][k]].duration_minutes >= task.duration_minutes

\* The step processes the next task of invocation i.
ProcessesTask(i) == pcM[i] = "loop" /\ next_task'[i] = next_task[i] + 1

\* C4: a task is put in unscheduled_tasks if and only if, at its turn, no
\* available gap has duration_minutes >= the task's duration_minutes;
\* whenever a gap qualifies the task is scheduled, whatever the fit scores.
C4_UnscheduledIffNoGapQualifies ==
    [][\A i \in Invocations :
          ProcessesTask(i) =>
              LET task == sorted_tasks[i][next_task[i]]
              IN (unscheduled'[i] = Append(unscheduled[i], task))
                     <=> ~SomeGapQualifies(i, task)]_vars

\* C5: no task is assigned to a gap whose duration_minutes immediately
\* before the assignment is smaller than the task's duration_minutes.
C5_AssignedGapLongEnough ==
    [][\A i \in Invocations :
          Len(scheduled'[i]) = Len(scheduled[i]) + 1 =>
              LET st == scheduled'[i][Len(scheduled'[i])]
                  gap == heap[available_gaps[i][st.gap_index + 1]]
              IN gap.duration_minutes >= st.task.duration_minutes]_vars

\* A second task has been assigned to a gap that an earlier task of the
\* same pass had already shortened.
C5_Witness ==
    \E i \in Invocations : \E a, b \in DOMAIN scheduled[i] :
        /\ a < b
        /\ scheduled[i][a].end_time = scheduled[i][b].start_time
        /\ \E k \in DOMAIN available_gaps[i] :
              /\ heap[available_gaps[i][k]].start_time = scheduled[i][b].end_time
              /\ heap[available_gaps[i][k]].duration_minutes > 0

\* C9: in every returned ScheduleResult (no tasks, no gaps, main path),
\* success is true exactly when unscheduled_tasks is empty.
C9_SuccessIffNothingUnscheduled ==
    \A i \in Invocations :
        Returned(i) => (result[i].success <=> result[i].unscheduled_tasks = <<>>)

\* A result of the main path with a scheduled and an unscheduled task and
\* success = false.
C9_Witness ==
    \E i \in Invocations :
        /\ Returned(i)
        /\ gaps # <<>>
        /\ result[i].scheduled_tasks # <<>>
        /\ result[i].unscheduled_tasks # <<>>
        /\ ~result[i].success

\* The fields of the Gap objects of a list of references.
Fields(list) == [k \in DOMAIN list |-> heap[list[k]]]

\* C10: the caller's gaps list and every field of every Gap in it stay as
\* they were given, in every state of two calls running one after the other
\* or interleaved, and each call starts its pass on gaps equal to the
\* original ones.
C10_CallerGapsUnchanged ==
    /\ gaps = [k \in DOMAIN input_gaps |-> k]
    /\ Fields(gaps) = input_gaps
    /\ \A i \in Invocations :
          (pcM[i] = "loop" /\ next_task[i] = 1) => Fields(available_gaps[i]) = input_gaps

\* One call has consumed part of a gap while the other call is about to
\* start its pass.
C10_Witness ==
    \E i, j \in Invocations :
        /\ i # j
        /\ pcM[i] = "loop"
        /\ scheduled[i] # <<>>
        /\ Fields(available_gaps[i]) # input_gaps
        /\ pcM[j] = "loop"
        /\ next_task[j] = 1

\* C11: two invocations with the same (tasks, gaps), one after the other or
\* interleaved on the same TaskMatcher, return the same scheduled tasks (task,
\* start_time, end_time, gap_index, fit_score), the same unscheduled tasks
\* and the same success.
C11_SameArgumentsSameResult ==
    \A i, j \in Invocations :
        (Returned(i) /\ Returned(j)) => result[i] = result[j]

\* Both invocations have returned a result of the main path that schedules
\* one task and leaves another unscheduled.
C11_Witness ==
    /\ \A i \in Invocations : Returned(i)
    /\ result[1].scheduled_tasks # <<>>
    /\ result[2].unscheduled_tasks # <<>>

\* C13: every ScheduledTask starts at the start the chosen gap had just
\* before its consumption, and end_time - start_time is exactly the task's
\* duration_minutes.
C13_StartsAtGapStartExactLength ==
    [][\A i \in Invocations :
          Len(scheduled'[i]) = Len(scheduled[i]) + 1 =>
              LET st == scheduled'[i][Len(scheduled'[i])]
                  gap == heap[available_gaps[i][st.gap_index + 1]]
              IN /\ st.start_time = gap.start_time
                 /\ st.end_time - st.start_time = st.task.duration_minutes]_vars

\* A task has been placed in the remainder of a gap: it starts where no
\* gap of the caller starts, and the gap it took still has time left.
C13_Witness ==
    \E i \in Invocations : \E a \in DOMAIN scheduled[i] :
        /\ \A k \in DOMAIN input_gaps :
              input_gaps[k].start_time # scheduled[i][a].start_time
        /\ \E k \in DOMAIN available_gaps[i] :
              heap[available_gaps[i][k]].start_time = scheduled[i][a].end_time

\* C18: with no tasks the call returns success = true and empty lists, also
\* when there are no gaps; with at least one task and no gaps it returns
\* success = false, nothing scheduled and every input task unscheduled.
C18_EmptyInputsAreNormalResults ==
    \A i \in Invocations :
        Returned(i) =>
            /\ tasks = <<>> =>
                  result[i] = [scheduled_tasks |-> <<>>, unscheduled_tasks |-> <<>>,
                               success |-> TRUE]
            /\ (tasks # <<>> /\ gaps = <<>>) =>
                  result[i] = [scheduled_tasks |-> <<>>, unscheduled_tasks |-> tasks,
                               success |-> FALSE]

\* A call with two tasks and no gaps has returned.
C18_Witness ==
    \E i \in Invocations :
        /\ Returned(i)
        /\ Len(tasks) = 2
        /\ gaps = <<>>

\* The call of the scenario: the four tasks against the three gaps.
Scenario20 ==
    /\ tasks = Numbered(ScenarioTasks)
    /\ input_gaps = ScenarioGaps

\* C20: the scenario schedules all four tasks (success = true) and places
\* the 60-minute high-priority task at 09:00-10:00.
C20_ScenarioAllScheduled ==
    \A i \in Invocations :
        (Returned(i) /\ Scenario20) =>
            /\ result[i].success
            /\ result[i].unscheduled_tasks = <<>>
            /\ Len(result[i].scheduled_tasks) = 4
            /\ \E a \in DOMAIN result[i].scheduled_tasks :
                  /\ result[i].scheduled_tasks[a].task = tasks[1]
                  /\ result[i].scheduled_tasks[a].start_time = HM(9, 0)
                  /\ result[i].scheduled_tasks[a].end_time = HM(10, 0)

\* The call of the scenario has returned.
C20_Witness ==
    \E i \in Invocations :
        /\ Returned(i)
        /\ Scenario20
        /\ result[i].scheduled_tasks # <<>>

\* Comparison of two scores given as fractions with positive denominators.
Below(a, b) == a.num * b.den < b.num * a.den

\* The task an invocation is about to place, and the gaps it may use.
AtTask(i) == pcM[i] = "loop" /\ next_task[i] <= Len(sorted_tasks[i])
CurrentTask(i) == sorted_tasks[i][next_task[i]]
AvailableGap(i, k) == heap[available_gaps[i][k]]
Fits(i, k) == AvailableGap(i, k).duration_minutes >= CurrentTask(i).duration_minutes
ScoreOf(i, k) == calculate_fit_score(CurrentTask(i), AvailableGap(i, k))

\* C21: when _find_best_gap returns a gap, that gap qualifies, no qualifying
\* gap has a greater fit_score, and every qualifying gap before it in the
\* available list has a smaller one.
C21_BestGapIsFirstMaximum ==
    \A i \in Invocations :
        AtTask(i) =>
            LET best == find_best_gap(CurrentTask(i), available_gaps[i])
            IN best.index # 0 =>
                  /\ Fits(i, best.index)
                  /\ best.score = ScoreOf(i, best.index)
                  /\ \A k \in DOMAIN available_gaps[i] :
                        Fits(i, k) =>
                            /\ ~Below(best.score, ScoreOf(i, k))
                            /\ k < best.index => Below(ScoreOf(i, k), best.score)

\* Two qualifying gaps tie at the greatest score and the earlier is returned.
C21_Witness ==
    \E i \in Invocations :
        /\ AtTask(i)
        /\ LET best == find_best_gap(CurrentTask(i), available_gaps[i])
           IN /\ best.index # 0
              /\ \E k \in DOMAIN available_gaps[i] :
                    /\ k > best.index
                    /\ Fits(i, k)
                    /\ ScoreOf(i, k) = best.score

\* The sort keys of a task: weight high = 3, medium = 2, low = 1; a missing
\* or unparseable deadline is +infinity.
Weight(task) ==
    CASE task.priority = "high" -> 3
      [] task.priority = "medium" -> 2
      [] task.priority = "low" -> 1
HasDeadline(task) == task.deadline.kind = "iso"
DeadlineBefore(a, b) == HasDeadline(a) /\ (~HasDeadline(b) \/ a.deadline.ts < b.deadline.ts)
SameKeys(a, b) ==
    /\ Weight(a) = Weight(b)
    /\ ~DeadlineBefore(a, b)
    /\ ~DeadlineBefore(b, a)

\* C22: the tasks are processed in the stable sort of the input by
\* (-priority_weight, deadline): higher priority first, within a priority the
\* earlier deadline first, and tasks equal on both keys in input order.
C22_ProcessingOrderIsStableSort ==
    \A i \in Invocations :
        pcM[i] = "loop" =>
            /\ Len(sorted_tasks[i]) = Len(tasks)
            /\ \A k \in DOMAIN tasks : Occurrences(sorted_tasks[i], tasks[k]) = 1
            /\ \A a, b \in DOMAIN sorted_tasks[i] :
                  a < b =>
                      LET x == sorted_tasks[i][a]
                          y == sorted_tasks[i][b]
                      IN /\ Weight(x) >= Weight(y)
                         /\ Weight(x) = Weight(y) => ~DeadlineBefore(y, x)
                         /\ SameKeys(x, y) => x.id < y.id

\* Two tasks of the same priority were swapped: the first of the input has
\* an unparseable deadline, the second a parseable one.
C22_Witness ==
    \E i \in Invocations :
        /\ pcM[i] = "loop"
        /\ Len(tasks) = 2
        /\ tasks[1].deadline.kind = "bad"
        /\ HasDeadline(tasks[2])
        /\ sorted_tasks[i] = <<tasks[2], tasks[1]>>

\* C23: after a task of duration d is matched to a gap, that gap's start has
\* advanced by d and its duration_minutes has decreased by d, it has left the
\* available list if and only if its remaining duration is <= 0, and every
\* other gap is as it was.
C23_OnlyChosenGapConsumed ==
    [][\A i \in Invocations :
          Len(scheduled'[i]) = Len(scheduled[i]) + 1 =>
              LET st == scheduled'[i][Len(scheduled'[i])]
                  k == st.gap_index + 1
                  ref == available_gaps[i][k]
                  d == st.task.duration_minutes
              IN /\ heap'[ref] = [heap[ref] EXCEPT
                                     !.start_time = heap[ref].start_time + d,
                                     !.duration_minutes = heap[ref].duration_minutes - d]
                 /\ \A id \in DOMAIN heap : id # ref => heap'[id] = heap[id]
                 /\ available_gaps'[i] =
                        IF heap[ref].duration_minutes - d <= 0
                        THEN [n \in 1..(Len(available_gaps[i]) - 1) |->
                                 available_gaps[i][IF n < k THEN n ELSE n + 1]]
                        ELSE available_gaps[i]
                 /\ \A j \in Invocations \ {i} :
                        available_gaps'[j] = available_gaps[j]]_vars

\* A gap was used up and removed while another gap is still available.
C23_Witness ==
    \E i \in Invocations :
        /\ pcM[i] = "loop"
        /\ scheduled[i] # <<>>
        /\ available_gaps[i] # <<>>
        /\ Len(available_gaps[i]) < Len(gaps)

\* The gap's start hour lies in the range of the preference.
InPreferredRange(pref, hour) ==
    \/ pref = "morning" /\ 7 <= hour /\ hour <= 12
    \/ pref = "afternoon" /\ 12 <= hour /\ hour <= 17
    \/ pref = "evening" /\ 17 <= hour /\ hour <= 21
    \/ pref = "midday" /\ 11 <= hour /\ hour <= 14

\* efficiency + priority / 3 + boost with boost = +2.0 inside the range of
\* the preference and -5.0 outside, as a fraction.
PreferenceScore(task, gap) ==
    LET g == gap.duration_minutes
        boost == IF InPreferredRange(task.time_preference, gap.start_time \div 60)
                 THEN 20 ELSE -50
    IN [num |-> 30 * task.duration_minutes + 10 * Weight(task) * g + 3 * boost * g,
        den |-> 30 * g]

\* C24: for a task whose time_preference is set, the fit_score uses the boost
\* +2.0 when the gap's start hour is inside the matching range and -5.0 when
\* it is outside, for every title and every priority.
C24_PreferenceDecidesBoost ==
    [][\A i \in Invocations :
          Len(scheduled'[i]) = Len(scheduled[i]) + 1 =>
              LET st == scheduled'[i][Len(scheduled'[i])]
                  gap == heap[available_gaps[i][st.gap_index + 1]]
              IN st.task.time_preference # "none" =>
                    ~Below(st.fit_score, PreferenceScore(st.task, gap))
                    /\ ~Below(PreferenceScore(st.task, gap), st.fit_score)]_vars

\* C28: gap_index of every returned ScheduledTask is the index, in the
\* caller's gaps list, of the gap that contains the task's range.
C28_GapIndexIsCallerIndex ==
    \A i \in Invocations :
        (Returned(i) /\ WellFormedGaps) =>
            \A a \in DOMAIN result[i].scheduled_tasks :
                LET st == result[i].scheduled_tasks[a]
                IN /\ st.gap_index + 1 \in DOMAIN input_gaps
                   /\ InsideGap(st, input_gaps[st.gap_index + 1])

\* ====================================================================
\* Properties of analyze_calendar_gaps
\* ====================================================================
WindowFrom == strptime(start_window)
WindowTo == strptime(end_window)

EventCovers(t) ==
    \E k \in DOMAIN cal_events :
        strptime(cal_events[k].start_time) <= t /\ t < strptime(cal_events[k].end_time)

\* The minutes of the window that no event covers, and those inside a gap.
FreeMinutes == {t \in WindowFrom .. (WindowTo - 1) : ~EventCovers(t)}
GapMinutes ==
    UNION {window_gaps[k].start_time .. (window_gaps[k].end_time - 1) :
               k \in DOMAIN window_gaps}

\* C29: the gaps returned by analyze_calendar_gaps are exactly the parts of
\* [start_window, end_window] that no event covers: each gap lies inside the
\* window, overlaps no event, lasts end_time - start_time minutes, and
\* together the gaps hold every free minute of the window.
C29_GapsAreTheFreeParts ==
    pcG = "done" =>
        /\ \A k \in DOMAIN window_gaps :
              LET gap == window_gaps[k]
              IN /\ WindowFrom <= gap.start_time
                 /\ gap.start_time < gap.end_time
                 /\ gap.end_time <= WindowTo
                 /\ gap.duration_minutes = gap.end_time - gap.start_time
                 /\ \A t \in gap.start_time .. (gap.end_time - 1) : ~EventCovers(t)
        /\ GapMinutes = FreeMinutes

\* ====================================================================
\* Properties of get_or_create_user
\* ====================================================================
\* Both calls carry the same clerk_user_id and no row had it before them.
SameUnknownId ==
    /\ \A p \in Callers : pcU[p] # "idle"
    /\ \A p, q \in Callers : call[p].clerk_user_id = call[q].clerk_user_id
    /\ \A p \in Callers :
          ~\E r \in users : r.clerk_user_id = call[p].clerk_user_id /\ r.key = 0

AllReturned == \A p \in Callers : pcU[p] = "returned"

====
